---- MODULE Spec2Model ----
(***************************************************************************)
(* A model of the citation renderer of bibtox: bib2html.py (authors,       *)
(* parse_date, venue, publisher, note, doi, url, html) and the older        *)
(* render_bibs.py (html).  Text is modelled by TLA+ strings, the yattag     *)
(* document by the list of fragments Doc.result holds, a bibtexparser       *)
(* Entry by a record of its key, entry type, text fields and author field.  *)
(***************************************************************************)
EXTENDS Integers, Sequences, FiniteSets, TLC

VARIABLES prog, HOMEPAGES, entries, pc, i, doc, docs, log, arg, ret

vars == <<prog, HOMEPAGES, entries, pc, i, doc, docs, log, arg, ret>>

\* ------------------------------------------------------------------------
\* Bounds of the model.
MaxAuthors == 3
MaxEntries == 3
MaxRuns == 2

\* ------------------------------------------------------------------------
\* Python str operations used by the source.

Ch(s, k) == SubSeq(s, k, k)

MinOf(S) == CHOOSE x \in S : \A y \in S : x <= y

MaxOf(S) == CHOOSE x \in S : \A y \in S : x >= y

IsSpace(c) == c \in {" ", "\t", "\n"}

\* str.strip()
Strip(s) ==
  LET nz == {k \in 1..Len(s) : ~IsSpace(Ch(s, k))}
  IN  IF nz = {} THEN "" ELSE SubSeq(s, MinOf(nz), MaxOf(nz))

\* str.split(sep) for a one-character sep: empty pieces are kept.
RECURSIVE SplitOn(_, _)
SplitOn(s, sep) ==
  LET P == {k \in 1..Len(s) : Ch(s, k) = sep}
  IN  IF P = {} THEN <<s>>
      ELSE LET k == MinOf(P)
           IN  <<SubSeq(s, 1, k - 1)>> \o SplitOn(SubSeq(s, k + 1, Len(s)), sep)

\* str.split(): runs of whitespace separate, no empty piece.
RECURSIVE SplitWS(_)
SplitWS(s) ==
  LET nz == {k \in 1..Len(s) : ~IsSpace(Ch(s, k))}
  IN  IF nz = {} THEN <<>>
      ELSE LET b == MinOf(nz)
               sp == {k \in b..Len(s) : IsSpace(Ch(s, k))}
               e == IF sp = {} THEN Len(s) ELSE MinOf(sp) - 1
           IN  <<SubSeq(s, b, e)>> \o SplitWS(SubSeq(s, e + 1, Len(s)))

UpperCase == <<"A","B","C","D","E","F","G","H","I","J","K","L","M",
               "N","O","P","Q","R","S","T","U","V","W","X","Y","Z">>

LowerCase == <<"a","b","c","d","e","f","g","h","i","j","k","l","m",
               "n","o","p","q","r","s","t","u","v","w","x","y","z">>

LowerCh(c) ==
  IF \E k \in 1..26 : UpperCase[k] = c
  THEN LowerCase[CHOOSE k \in 1..26 : UpperCase[k] = c]
  ELSE c

\* str.lower()
RECURSIVE Lower(_)
Lower(s) ==
  IF Len(s) = 0 THEN "" ELSE LowerCh(Ch(s, 1)) \o Lower(SubSeq(s, 2, Len(s)))

\* sep.join(parts)
RECURSIVE Join(_, _)
Join(parts, sep) ==
  IF Len(parts) = 0 THEN ""
  ELSE IF Len(parts) = 1 THEN parts[1]
  ELSE parts[1] \o sep \o Join(Tail(parts), sep)

\* str.replace("..", "."): non-overlapping occurrences, left to right.
RECURSIVE ReplaceDots(_)
ReplaceDots(s) ==
  IF Len(s) < 2 THEN s
  ELSE IF SubSeq(s, 1, 2) = ".." THEN "." \o ReplaceDots(SubSeq(s, 3, Len(s)))
  ELSE Ch(s, 1) \o ReplaceDots(SubSeq(s, 2, Len(s)))

\* ------------------------------------------------------------------------
\* bibtexparser's Entry as the source reads it: bib.get(name) is a Field or
\* None, bib.entry_type, bib.key.  The author Field (a list of NameParts after
\* SplitNameParts) is kept apart from the text fields: author is <<>> when the
\* field is absent and <<names>> when present.

Has(bib, f) == f \in DOMAIN bib.fields

Val(bib, f) == bib.fields[f]

\* ------------------------------------------------------------------------
\* bib2html.parse_date

MonthKeys == <<"", "01", "jan", "02", "feb", "03", "mar", "04", "apr",
               "05", "may", "06", "jun", "07", "jul", "08", "aug",
               "09", "sep", "10", "oct", "11", "nov", "12", "dec">>

MonthNames == <<"", "January", "January", "Feburary", "February",
                "March", "March", "April", "April", "May", "May",
                "June", "June", "July", "July", "August", "August",
                "September", "September", "October", "October",
                "November", "November", "December", "December">>

InMonths(k) == \E n \in 1..Len(MonthKeys) : MonthKeys[n] = k

MonthOf(k) == MonthNames[CHOOSE n \in 1..Len(MonthKeys) : MonthKeys[n] = k]

DateRaise(e) == [exc |-> e, date |-> "", year |-> "", month |-> ""]

DateRet(d, y, m) == [exc |-> "", date |-> d, year |-> y, month |-> m]

\* Lines 74-107: the month table, the display string, the return.
DateAssemble(year, month, day) ==
  LET k == Strip(Lower(month))
  IN  IF ~InMonths(k) THEN DateRaise("KeyError")
      ELSE LET m == MonthOf(k)
           IN  IF m # "" THEN DateRet(day \o " " \o m \o ", " \o year, year, m)
               ELSE DateRet(year, year, m)

IssueDateSplit(date) == SplitOn(date, " ")

parse_date(bib) ==
  IF Has(bib, "issue_date")
  THEN LET date == Val(bib, "issue_date")
           parts == IssueDateSplit(date)
       IN  IF Len(parts) # 2 THEN DateRaise("ValueError")
           ELSE DateRet(date, parts[2], parts[1])
  ELSE IF Has(bib, "date")
  THEN LET date == Val(bib, "date")
           dash == SplitOn(date, "-")
           ws == SplitWS(date)
       IN  IF Len(dash) = 3 THEN DateAssemble(dash[1], dash[2], dash[3])
           ELSE IF Len(ws) = 3 THEN DateAssemble(ws[1], ws[2], ws[3])
           ELSE DateRaise("ValueError")
  ELSE IF ~Has(bib, "year") THEN DateRaise("AttributeError")
  ELSE LET year == Val(bib, "year")
           month == IF Has(bib, "month") THEN Val(bib, "month") ELSE ""
           parts == SplitOn(month, "#")
           day == Strip(Join(Tail(parts), " "))
       IN  DateAssemble(year, parts[1], day)

\* ------------------------------------------------------------------------
\* The yattag document: Doc.result, the list of fragments written so far.
\* doc.tag(...) reserves a slot on entry and fills it with the opening tag
\* only when its block ends without an exception, appending the closing tag;
\* what the block wrote before raising stays in the list.

Open(name, klass, id, href) ==
  [k |-> "open", name |-> name, klass |-> klass, id |-> id, href |-> href, s |-> ""]

Close(name) ==
  [k |-> "close", name |-> name, klass |-> "", id |-> "", href |-> "", s |-> ""]

Text(s) ==
  [k |-> "text", name |-> "", klass |-> "", id |-> "", href |-> "", s |-> s]

Asis(s) ==
  [k |-> "asis", name |-> "", klass |-> "", id |-> "", href |-> "", s |-> s]

Stag(name) ==
  [k |-> "stag", name |-> name, klass |-> "", id |-> "", href |-> "", s |-> ""]

\* What a block of code did: the exception it raised ("" when none) and the
\* fragments it wrote.
Frag(exc, toks) == [exc |-> exc, toks |-> toks]

\* with doc.tag(...): body
WithTag(open, body) ==
  IF body.exc = "" THEN Frag("", <<open>> \o body.toks \o <<Close(open.name)>>)
  ELSE body

\* Statements in sequence: the first exception ends the sequence.
RECURSIVE Chain(_)
Chain(frags) ==
  IF Len(frags) = 0 THEN Frag("", <<>>)
  ELSE IF frags[1].exc # "" THEN frags[1]
  ELSE LET rest == Chain(Tail(frags))
       IN  Frag(rest.exc, frags[1].toks \o rest.toks)

\* ------------------------------------------------------------------------
\* bib2html.authors

\* NameParts.merge_last_name_first of bibtexparser, for a name with no von
\* and no jr part: "Last, First".
merge_last_name_first(author) ==
  LET first == Join(author.first, " ")
      last == Join(author.last, " ")
  IN  IF last # "" /\ first # "" THEN last \o ", " \o first
      ELSE IF last # "" THEN last
      ELSE first

\* HOMEPAGES.get(key): "" stands for None.
HomepageGet(key) == IF key \in DOMAIN HOMEPAGES THEN HOMEPAGES[key] ELSE ""

\* Separator with the test for the last author off by one.
MutSeparator(j, n) ==
  IF j = 1 THEN <<>>
  ELSE IF j + 1 = n THEN <<Text(" and ")>>
  ELSE <<Text(", ")>>

\* Lines 31-36: the separator written before author j (1-based) of n.
Separator(j, n) ==
  IF j = 1 THEN <<>>
  ELSE IF j = n THEN <<Text(" and ")>>
  ELSE <<Text(", ")>>

\* HomepageKey built from the first letter of the given name.
MutHomepageKey(author) == Ch(author.first[1], 1) \o " " \o author.last[1]

\* Line 39.
HomepageKey(author) == author.first[1] \o " " \o author.last[1]

\* IsHighlighted comparing the first letter of the given name only.
MutIsHighlighted(author) == <<Ch(author.first[1], 1), author.last[1]>> = <<"R", "Mortier">>

\* Line 42.
IsHighlighted(author) == <<author.first[1], author.last[1]>> = <<"Richard", "Mortier">>

\* Line 45: what author.first is overwritten with.
Initials(author) == <<Strip(Ch(author.first[1], 1)) \o ".">>

\* Lines 38-51: one author; author.first[0], author.last[0] and
\* author.first[0][0] raise IndexError on an empty list or string.
AuthorBody(author) ==
  IF author.first = <<>> \/ author.last = <<>> \/ author.first[1] = ""
  THEN [exc |-> "IndexError", toks |-> <<>>, author |-> author]
  ELSE LET homepage == HomepageGet(HomepageKey(author))
           klass == IF IsHighlighted(author) THEN "author highlight" ELSE "author"
           a == [author EXCEPT !.first = Initials(author)]
           name == Frag("", <<Text(merge_last_name_first(a))>>)
           inner == IF homepage # ""
                    THEN WithTag(Open("a", "", "", homepage), name)
                    ELSE name
       IN  [exc |-> "",
            toks |-> WithTag(Open("span", klass, "", ""), inner).toks,
            author |-> a]

\* Lines 30-51: the loop from author j on; people is the list being rewritten.
RECURSIVE AuthorsLoop(_, _)
AuthorsLoop(people, j) ==
  IF j > Len(people) THEN [exc |-> "", toks |-> <<>>, people |-> people]
  ELSE LET one == AuthorBody(people[j])
           sep == Separator(j, Len(people))
       IN  IF one.exc # ""
           THEN [exc |-> one.exc, toks |-> sep, people |-> people]
           ELSE LET rest == AuthorsLoop([people EXCEPT ![j] = one.author], j + 1)
                IN  [exc |-> rest.exc,
                     toks |-> sep \o one.toks \o rest.toks,
                     people |-> rest.people]

\* authors(doc, bib): the fragments written and the author field afterwards.
authors(bib) ==
  IF bib.author = <<>>
  THEN [exc |-> "AttributeError", toks |-> <<>>, author |-> bib.author]
  ELSE LET loop == AuthorsLoop(bib.author[1], 1)
           span == WithTag(Open("span", "authors", "", ""), Frag(loop.exc, loop.toks))
       IN  [exc |-> span.exc, toks |-> span.toks, author |-> <<loop.people>>]

\* ------------------------------------------------------------------------
\* render_bibs.html, lines 47-60: the author loop of the older script.

RECURSIVE rb_AuthorsLoop(_, _)
rb_AuthorsLoop(people, j) ==
  IF j > Len(people) THEN [exc |-> "", toks |-> <<>>, people |-> people]
  ELSE LET author == people[j]
           n == Len(people)
           before == IF j = n THEN <<Text(" and ")>> ELSE <<>>
           after == IF j < n THEN <<Text(", ")>> ELSE <<>>
       IN  IF author.first = <<>> \/ author.last = <<>> \/ author.first[1] = ""
           THEN [exc |-> "IndexError", toks |-> before, people |-> people]
           ELSE LET klass == IF IsHighlighted(author)
                             THEN "author highlight" ELSE "author"
                    a == [author EXCEPT !.first = Initials(author)]
                    span == <<Open("span", klass, "", ""),
                              Text(merge_last_name_first(a)), Close("span")>>
                    rest == rb_AuthorsLoop([people EXCEPT ![j] = a], j + 1)
                IN  [exc |-> rest.exc,
                     toks |-> before \o span \o after \o rest.toks,
                     people |-> rest.people]

rb_authors(bib) ==
  IF bib.author = <<>>
  THEN [exc |-> "AttributeError", toks |-> <<>>, author |-> bib.author]
  ELSE LET loop == rb_AuthorsLoop(bib.author[1], 1)
           span == WithTag(Open("span", "authors", "", ""), Frag(loop.exc, loop.toks))
       IN  [exc |-> span.exc, toks |-> span.toks, author |-> <<loop.people>>]

\* ------------------------------------------------------------------------
\* bib2html: year, title, publisher, venue, date, note, doi, url

year(y) == WithTag(Open("span", "year", "", ""), Frag("", <<Text(" (" \o y \o ") ")>>))

title(bib) ==
  IF ~Has(bib, "title") THEN Frag("AttributeError", <<>>)
  ELSE WithTag(Open("span", "title", "", ""),
               Frag("", <<Asis("&ldquo;" \o Val(bib, "title") \o "&rdquo;. ")>>))

publisher(bib) ==
  IF Has(bib, "publisher")
  THEN WithTag(Open("span", "publisher", "", ""),
               Frag("", <<Text(" " \o Strip(Val(bib, "publisher")) \o " ")>>))
  ELSE Frag("", <<>>)

\* The first of names that is a field of bib, or "" (None) when none is.
FirstPresent(bib, names) ==
  LET P == {n \in 1..Len(names) : Has(bib, names[n])}
  IN  IF P = {} THEN "" ELSE names[MinOf(P)]

\* Lines 187-191: the venue span and the addendum.
VenueTail(venue, addendum) ==
  Chain(<<WithTag(Open("span", "venue", "", ""), Frag("", <<Asis(Strip(venue))>>)),
          IF Len(addendum) > 0 THEN Frag("", <<Asis(addendum \o ". ")>>)
          ELSE Frag("", <<>>)>>)

\* A venue read with bib.get(...) over alternatives, then venue.value:
\* AttributeError when none of the fields is present.
VenueFrom(bib, names, addendum) ==
  LET f == FirstPresent(bib, names)
  IN  IF f = "" THEN Frag("AttributeError", <<Text("In ")>>)
      ELSE Chain(<<Frag("", <<Text("In ")>>), VenueTail(Val(bib, f), addendum)>>)

Add(bib, f, pre, post) == IF Has(bib, f) THEN pre \o Val(bib, f) \o post ELSE ""

venue(bib) ==
  CASE bib.entry_type = "inproceedings" ->
         IF ~Has(bib, "booktitle") THEN Frag("KeyError", <<Text("In ")>>)
         ELSE VenueFrom(bib, <<"booktitle">>,
                        Add(bib, "address", ". ", "") \o Add(bib, "pages", ". pp.&nbsp;", ""))
    [] bib.entry_type = "article" ->
         VenueFrom(bib, <<"journaltitle", "journal">>,
                   Add(bib, "volume", "&nbsp;", "") \o Add(bib, "number", "(", ")")
                     \o Add(bib, "pages", ":", ""))
    [] bib.entry_type = "patent" -> VenueTail("Patent", "")
    [] bib.entry_type \in {"online", "report", "misc"} ->
         VenueFrom(bib, <<"eprinttype", "institution", "publisher">>, "")
    [] bib.entry_type = "inbook" -> VenueFrom(bib, <<"volume", "booktitle">>, "")
    [] bib.entry_type = "unpublished" -> VenueTail("", "")
    [] OTHER -> VenueTail("UNKNOWN VENUE", "")

date(d) == WithTag(Open("span", "date", "", ""), Frag("", <<Text(d \o ". ")>>))

note(bib) ==
  WithTag(Open("span", "note", "", ""),
          IF Has(bib, "note")
          THEN Frag("", <<Text(ReplaceDots(Strip(Val(bib, "note")) \o ". "))>>)
          ELSE Frag("", <<>>))

doi(bib) ==
  WithTag(Open("span", "doi", "", ""),
          IF Has(bib, "doi")
          THEN WithTag(Open("a", "", "", Val(bib, "doi")),
                       Frag("", <<Asis("doi:" \o Val(bib, "doi") \o " ")>>))
          ELSE Frag("", <<>>))

url(bib) ==
  WithTag(Open("span", "url", "", ""),
          IF Has(bib, "url")
          THEN WithTag(Open("a", "", "", Val(bib, "url")),
                       Frag("", <<Asis(Val(bib, "url"))>>))
          ELSE Frag("", <<>>))

\* ------------------------------------------------------------------------
\* bib2html.html on one Entry, lines 241-258: the fragments written, the
\* exception re-raised ("" when none), the author field afterwards and what
\* log.exception recorded (the entry's key stands for the entry).

\* Lines 246-258, once parse_date has ended with d and authors with a.
EntryBody(bib, d, a) ==
  IF d.exc # "" THEN Frag(d.exc, <<>>)
  ELSE Chain(<<Frag(a.exc, a.toks), year(d.year), title(bib), venue(bib),
               publisher(bib), date(d.date), note(bib), doi(bib), url(bib)>>)

EntryResult(bib, body, author) ==
  [exc |-> body.exc,
   toks |-> body.toks,
   author |-> author,
   logged |-> IF body.exc # "" THEN <<bib.key>> ELSE <<>>]

EntryAuthor(bib, d, a) == IF d.exc # "" THEN bib.author ELSE a.author

EntryAfter(bib, d, a) == EntryResult(bib, EntryBody(bib, d, a), EntryAuthor(bib, d, a))

html_entry(bib) == EntryAfter(bib, parse_date(bib), authors(bib))

\* ------------------------------------------------------------------------
\* render_bibs.html on one Entry, lines 46-105.

rb_MonthKeys == <<"", "jan", "feb", "mar", "apr", "may", "jun",
                  "jul", "aug", "sep", "oct", "nov", "dec">>

rb_MonthNames == <<"", "January", "February", "March", "April", "May", "June",
                   "July", "August", "September", "October", "November", "December">>

\* Lines 70-101: the date span.
rb_date(bib) ==
  LET span(dt) == WithTag(Open("span", "date", "", ""), Frag("", <<Text(Strip(dt))>>))
  IN  IF Has(bib, "issue_date") THEN span(Val(bib, "issue_date"))
      ELSE IF Has(bib, "date")
      THEN LET parts == SplitOn(Val(bib, "date"), "-")
           IN  IF Len(parts) # 3 THEN Frag("ValueError", <<>>)
               ELSE span(Join(<<parts[3], parts[2], parts[1]>>, " "))
      ELSE IF ~Has(bib, "year") THEN Frag("AttributeError", <<>>)
      ELSE LET month == IF Has(bib, "month") THEN Val(bib, "month") ELSE ""
               parts == SplitOn(month, "#")
               day == Strip(Join(Tail(parts), " "))
               k == Strip(parts[1])
           IN  IF ~\E n \in 1..Len(rb_MonthKeys) : rb_MonthKeys[n] = k
               THEN Frag("KeyError", <<>>)
               ELSE span(Join(<<day,
                                rb_MonthNames[CHOOSE n \in 1..Len(rb_MonthKeys) :
                                                  rb_MonthKeys[n] = k],
                                Val(bib, "year")>>, " "))

rb_title(bib) ==
  IF ~Has(bib, "title") THEN Frag("AttributeError", <<>>)
  ELSE WithTag(Open("span", "title", "", ""), Frag("", <<Text(Val(bib, "title"))>>))

rb_EntryBody(bib, a) ==
  Chain(<<Frag(a.exc, a.toks), Frag("", <<Stag("br")>>), rb_title(bib),
          Frag("", <<Stag("br")>>), rb_date(bib)>>)

rb_EntryAfter(bib, a) == EntryResult(bib, rb_EntryBody(bib, a), a.author)

rb_html_entry(bib) == rb_EntryAfter(bib, rb_authors(bib))

\* ------------------------------------------------------------------------
\* bib2html.html / render_bibs.html on a list, lines 227-239 / 31-43.

\* LiKlass without the case of inproceedings.
MutLiKlass(entry_type) ==
  CASE entry_type = "article" -> "journal"
    [] OTHER -> entry_type

\* The class of the list item after "paper".
LiKlass(entry_type) ==
  CASE entry_type = "article" -> "journal"
    [] entry_type = "inproceedings" -> "conference"
    [] OTHER -> entry_type

LiOpen(entry) == Open("li", "paper " \o LiKlass(entry.entry_type), entry.key, "")

EntryHtml(bib) == IF prog = "bib2html" THEN html_entry(bib) ELSE rb_html_entry(bib)

\* AfterEntry with the exception swallowed: the loop goes on.
MutAfterEntry(r) ==
  /\ pc' = "loop"
  /\ i' = i + 1

\* What the loop does once the rendering of entry i has ended with r: an
\* exception leaves the loop and html, to the caller.
AfterEntry(r) ==
  IF r.exc = "" THEN /\ pc' = "loop"
                     /\ i' = i + 1
  ELSE /\ pc' = "raised"
       /\ i' = i

\* ------------------------------------------------------------------------
\* The rendering of a library: html(library, doc) is called (Call), the loop
\* renders one entry per step (RenderEntry) and html returns (Return); the
\* same library may be rendered again, up to MaxRuns times.

NoHomepages == [k \in {} |-> ""]

\* An entry with no text field.
NoFields == [f \in {} |-> ""]

HomepageChoices ==
  { NoHomepages,
    ("R Mortier" :> "https://mort.io" @@ "A Lovelace" :> "https://ada.example"),
    ("Richard Mortier" :> "https://mort.io" @@ "R. Mortier" :> "https://r.example"
       @@ "Ada Lovelace" :> "") }

Mortier == [first |-> <<"Richard">>, last |-> <<"Mortier">>]

Lovelace == [first |-> <<"Ada", "B">>, last |-> <<"Lovelace">>]

Consortium == [first |-> <<>>, last |-> <<"Consortium">>]

Bibs ==
  { [key |-> "mortier2021", entry_type |-> "article", author |-> <<<<Mortier, Lovelace>>>>,
     fields |-> ("title" :> "On Something" @@ "year" :> "2021" @@ "journal" :> "J. Sys"
                 @@ "volume" :> "5" @@ "number" :> "2" @@ "pages" :> "10-20")],
    [key |-> "lovelace2020", entry_type |-> "inproceedings", author |-> <<<<Lovelace>>>>,
     fields |-> ("title" :> "Engines" @@ "date" :> "2020-01-15" @@ "booktitle" :> "Proc. X"
                 @@ "address" :> "Cambridge" @@ "publisher" :> " ACM " @@ "note" :> "To appear."
                 @@ "doi" :> "10.1/x" @@ "url" :> "https://x.example")],
    [key |-> "doe2010", entry_type |-> "patent", author |-> <<<<Lovelace, Mortier, Lovelace>>>>,
     fields |-> ("title" :> "Widget" @@ "year" :> "2010" @@ "month" :> "mar#5")],
    [key |-> "notitle", entry_type |-> "unpublished", author |-> <<<<Mortier>>>>,
     fields |-> ("year" :> "2019")],
    [key |-> "baddate", entry_type |-> "book", author |-> <<<<Lovelace>>>>,
     fields |-> ("title" :> "Dates" @@ "date" :> "2020")],
    [key |-> "noauthor", entry_type |-> "misc", author |-> <<>>,
     fields |-> ("title" :> "Anonymous" @@ "year" :> "2018" @@ "institution" :> "Inst")],
    [key |-> "corporate", entry_type |-> "report", author |-> <<<<Mortier, Consortium>>>>,
     fields |-> ("title" :> "Standard" @@ "year" :> "2017" @@ "institution" :> "Inst")] }

\* The libraries: up to MaxEntries entries, no key twice.
Libraries ==
  UNION { { l \in [1..n -> Bibs] : \A a, b \in 1..n : l[a] = l[b] => a = b } :
          n \in 1..MaxEntries }

NoResult == [exc |-> "", toks |-> <<>>, author |-> <<>>]

Init ==
  /\ prog \in {"bib2html", "render_bibs"}
  /\ HOMEPAGES \in HomepageChoices
  /\ entries \in Libraries
  /\ pc = "idle"
  /\ i = 0
  /\ doc = <<>>
  /\ docs = <<>>
  /\ log = <<>>
  /\ arg = <<>>
  /\ ret = NoResult

Call ==
  /\ pc = "idle"
  /\ Len(docs) < MaxRuns
  /\ pc' = "loop"
  /\ i' = 1
  /\ doc' = <<>>
  /\ UNCHANGED <<prog, HOMEPAGES, entries, docs, log, arg, ret>>

ListItem(entry, r) == WithTag(LiOpen(entry), Frag(r.exc, r.toks))

EntryDone(r) ==
  /\ doc' = doc \o ListItem(entries[i], r).toks
  /\ entries' = [entries EXCEPT ![i].author = r.author]
  /\ log' = log \o r.logged
  /\ AfterEntry(r)

RenderEntry ==
  /\ pc = "loop"
  /\ i <= Len(entries)
  /\ EntryDone(EntryHtml(entries[i]))
  /\ UNCHANGED <<prog, HOMEPAGES, docs, arg, ret>>

\* render_bibs wraps the list of a Library in <ul>.
Return ==
  /\ pc = "loop"
  /\ i > Len(entries)
  /\ pc' = "idle"
  /\ docs' = Append(docs, IF prog = "render_bibs"
                          THEN <<Open("ul", "", "", "")>> \o doc \o <<Close("ul")>>
                          ELSE doc)
  /\ UNCHANGED <<prog, HOMEPAGES, entries, i, doc, log, arg, ret>>

Next == Call \/ RenderEntry \/ Return

Spec == Init /\ [][Next]_vars

\* ------------------------------------------------------------------------
\* The author renderers alone: authors(doc, bib) of bib2html, or the author
\* loop of render_bibs.html, called on one entry up to MaxRuns times.  arg is
\* the entry as it was when the last call began, ret what the call did.

FirstNames == {<<"Richard">>, <<"Robert">>, <<"Ada", "B">>, <<>>}

LastNames == {<<"Mortier">>, <<"Lovelace">>}

Persons == { [first |-> f, last |-> l] : f \in FirstNames, l \in LastNames }

AuthorLists == UNION { [1..n -> Persons] : n \in 1..MaxAuthors }

InitAuthors ==
  /\ prog \in {"bib2html", "render_bibs"}
  /\ HOMEPAGES \in HomepageChoices
  /\ \E people \in AuthorLists :
       entries = <<[key |-> "k", entry_type |-> "misc", author |-> <<people>>,
                    fields |-> NoFields]>>
  /\ pc = "ready"
  /\ i = 0
  /\ doc = <<>>
  /\ docs = <<>>
  /\ log = <<>>
  /\ arg = entries[1]
  /\ ret = NoResult

CallAuthors ==
  /\ pc \in {"ready", "returned"}
  /\ i < MaxRuns
  /\ LET r == IF prog = "bib2html" THEN authors(entries[1]) ELSE rb_authors(entries[1])
     IN  /\ ret' = r
         /\ entries' = <<[entries[1] EXCEPT !.author = r.author]>>
         /\ pc' = IF r.exc = "" THEN "returned" ELSE "raised"
  /\ arg' = entries[1]
  /\ i' = i + 1
  /\ UNCHANGED <<prog, HOMEPAGES, doc, docs, log>>

NextAuthors == CallAuthors

SpecAuthors == InitAuthors /\ [][NextAuthors]_vars

\* ------------------------------------------------------------------------
\* venue(doc, bib) alone, over every entry type and every set of the fields
\* it reads.

EntryTypes == {"inproceedings", "article", "patent", "online", "report", "misc",
               "inbook", "unpublished", "book"}

VenueFields == {"booktitle", "address", "pages", "journaltitle", "journal", "volume",
                "number", "eprinttype", "institution", "publisher"}

VenueValue(f) ==
  CASE f = "booktitle" -> " Proc. X "
    [] f = "address" -> "Cambridge"
    [] f = "pages" -> "1-10"
    [] f = "journaltitle" -> "Journal of Systems"
    [] f = "journal" -> "J. Sys"
    [] f = "volume" -> "5"
    [] f = "number" -> "2"
    [] f = "eprinttype" -> "arXiv"
    [] f = "institution" -> "Inst"
    [] OTHER -> "ACM"

VenueBibs ==
  { [key |-> "k", entry_type |-> t, author |-> <<>>,
     fields |-> [f \in s |-> VenueValue(f)]] :
    t \in EntryTypes, s \in SUBSET VenueFields }

InitVenue ==
  /\ prog = "bib2html"
  /\ HOMEPAGES = NoHomepages
  /\ entries = <<>>
  /\ pc = "ready"
  /\ i = 0
  /\ doc = <<>>
  /\ docs = <<>>
  /\ log = <<>>
  /\ arg \in VenueBibs
  /\ ret = NoResult

CallVenue ==
  /\ pc = "ready"
  /\ LET r == venue(arg)
     IN  /\ ret' = [exc |-> r.exc, toks |-> r.toks, author |-> arg.author]
         /\ pc' = IF r.exc = "" THEN "returned" ELSE "raised"
  /\ UNCHANGED <<prog, HOMEPAGES, entries, i, doc, docs, log, arg>>

NextVenue == CallVenue

SpecVenue == InitVenue /\ [][NextVenue]_vars

\* ------------------------------------------------------------------------
\* parse_date(bib) alone, over the date encodings.

IssueDates == {"Mar 2019", " 2020", "2020", "Mar  2019", "Mar\t2019", "2019 "}

Dates == {"2020-01-15", "2020 jan 5", "2020", "2020-01", "2020-13-01",
          "2020-02-03", "2020-Feb-3", "a-b c d"}

Years == {"2021"}

Months == {"", "jan", "Jan ", "jan#5", "mar#5#6", "xx", "02"}

DateBibs ==
  UNION { { [key |-> "k", entry_type |-> "misc", author |-> <<>>,
             fields |-> [f \in s |->
                 CASE f = "issue_date" -> a
                   [] f = "date" -> b
                   [] f = "year" -> c
                   [] OTHER -> d]] :
            a \in (IF "issue_date" \in s THEN IssueDates ELSE {""}),
            b \in (IF "date" \in s THEN Dates ELSE {""}),
            c \in (IF "year" \in s THEN Years ELSE {""}),
            d \in (IF "month" \in s THEN Months ELSE {""}) } :
          s \in SUBSET {"issue_date", "date", "year", "month"} }

InitDate ==
  /\ prog = "bib2html"
  /\ HOMEPAGES = NoHomepages
  /\ entries = <<>>
  /\ pc = "ready"
  /\ i = 0
  /\ doc = <<>>
  /\ docs = <<>>
  /\ log = <<>>
  /\ arg \in DateBibs
  /\ ret = DateRaise("")

CallParseDate ==
  /\ pc = "ready"
  /\ ret' = parse_date(arg)
  /\ pc' = IF parse_date(arg).exc = "" THEN "returned" ELSE "raised"
  /\ UNCHANGED <<prog, HOMEPAGES, entries, i, doc, docs, log, arg>>

NextDate == CallParseDate

SpecDate == InitDate /\ [][NextDate]_vars

\* ------------------------------------------------------------------------
\* Reading a document.

\* The j-th smallest element of a set of positions.
Nth(S, j) == CHOOSE x \in S : Cardinality({y \in S : y < x}) = j - 1

\* The positions of the author spans.
AuthorOpenIdx(toks) ==
  {t \in 1..Len(toks) : /\ toks[t].k = "open"
                        /\ toks[t].name = "span"
                        /\ toks[t].klass \in {"author", "author highlight"}}

\* The positions of the text written between the author spans: text that
\* follows the opening of the authors span or the closing of an element.
SepIdx(toks) ==
  {t \in 2..Len(toks) : /\ toks[t].k = "text"
                        /\ \/ toks[t - 1].k = "close"
                           \/ toks[t - 1] = Open("span", "authors", "", "")}

IsLiOpen(t) == t.k = "open" /\ t.name = "li"

IsLiClose(t) == t.k = "close" /\ t.name = "li"

LiOpens(d) == SelectSeq(d, IsLiOpen)

\* The list items the first n entries are to give.
ExpectedItems(n) ==
  [j \in 1..n |->
     Open("li",
          CASE entries[j].entry_type = "article" -> "paper journal"
            [] entries[j].entry_type = "inproceedings" -> "paper conference"
            [] OTHER -> "paper " \o entries[j].entry_type,
          entries[j].key, "")]

Wrappers == <<"authors", "year", "title", "venue", "publisher", "date", "note", "doi", "url">>

IsWrapperOpen(t) ==
  /\ t.k = "open"
  /\ t.name = "span"
  /\ \E w \in 1..Len(Wrappers) : Wrappers[w] = t.klass

\* The author list the last call of the author renderer was given.
ArgPeople == arg.author[1]

\* ------------------------------------------------------------------------
\* C1: rendering the same library twice with bib2html.html gives the same
\* markup both times.
C1_SameMarkupTwice ==
  (prog = "bib2html" /\ Len(docs) >= 2) => docs[2] = docs[1]

\* C2: when bib2html.authors returns for N >= 2 authors it has written N
\* author spans and N-1 separators: nothing before the first author, " and "
\* right before the last author, ", " right before every other author, and
\* the authors' names in the order of the record.
C2_Separators ==
  (prog = "bib2html" /\ pc = "returned" /\ Len(ArgPeople) >= 2) =>
    LET toks == ret.toks
        n == Len(ArgPeople)
        A == AuthorOpenIdx(toks)
        S == SepIdx(toks)
    IN  /\ Cardinality(A) = n
        /\ Cardinality(S) = n - 1
        /\ 2 \in A
        /\ \A j \in 2..n :
             /\ Nth(A, j) - 1 \in S
             /\ toks[Nth(A, j) - 1].s = IF j = n THEN " and " ELSE ", "
        /\ \A j \in 1..n :
             LET t == Nth(A, j)
                 name == IF toks[t + 1].k = "text" THEN toks[t + 1] ELSE toks[t + 2]
             IN  name = Text(Join(ArgPeople[j].last, " ") \o ", "
                               \o Ch(ArgPeople[j].first[1], 1) \o ".")

C2_Witness ==
  /\ prog = "bib2html"
  /\ pc = "returned"
  /\ Len(ArgPeople) = 3
  /\ Cardinality(SepIdx(ret.toks)) = 2

\* C3: for one author no separator text, neither " and " nor ", ", is
\* written, by bib2html.authors and by the author loop of render_bibs.html.
C3_NoSeparatorForOne ==
  (pc = "returned" /\ Len(ArgPeople) = 1) =>
    \A t \in 1..Len(ret.toks) :
      ret.toks[t].k = "text" => ret.toks[t].s \notin {" and ", ", "}

\* C4 as amended: bib2html.authors marks an author's span with the highlight
\* class if and only if the author's first given-name token, as stored when
\* authors is called, is "Richard" and the first family-name token is
\* "Mortier"; the other given-name tokens do not matter.
C4_HighlightFullName ==
  (prog = "bib2html" /\ pc = "returned") =>
    LET A == AuthorOpenIdx(ret.toks)
    IN  /\ Cardinality(A) = Len(ArgPeople)
        /\ \A j \in 1..Len(ArgPeople) :
             (ret.toks[Nth(A, j)].klass = "author highlight")
               <=> (ArgPeople[j].first[1] = "Richard" /\ ArgPeople[j].last[1] = "Mortier")

C4_Witness ==
  /\ prog = "bib2html"
  /\ pc = "returned"
  /\ Len(ArgPeople) = 2
  /\ ArgPeople[1] = [first |-> <<"Robert">>, last |-> <<"Mortier">>]
  /\ ArgPeople[2] = [first |-> <<"Richard">>, last |-> <<"Mortier">>]
  /\ ret.toks[Nth(AuthorOpenIdx(ret.toks), 1)].klass = "author"
  /\ ret.toks[Nth(AuthorOpenIdx(ret.toks), 2)].klass = "author highlight"

\* C4 as stated: the highlight class is carried if and only if the first
\* initial of the first given-name token is that of Richard and the first
\* family-name token is Mortier.
C4_HighlightInitial ==
  (prog = "bib2html" /\ pc = "returned") =>
    LET A == AuthorOpenIdx(ret.toks)
    IN  \A j \in 1..Len(ArgPeople) :
          (ret.toks[Nth(A, j)].klass = "author highlight")
            <=> (Ch(ArgPeople[j].first[1], 1) = "R" /\ ArgPeople[j].last[1] = "Mortier")

C6_VenueTotal ==
  (pc # "ready") =>
    /\ ret.exc = ""
    /\ \E t \in 1..Len(ret.toks) : ret.toks[t] = Open("span", "venue", "", "")
    /\ arg.entry_type = "book" =>
         \E t \in 1..Len(ret.toks) : ret.toks[t] = Asis("UNKNOWN VENUE")

\* C7: every library bib2html.html has rendered shows, for each entry, the
\* nine wrapper spans authors, year, title, venue, publisher, date, note,
\* doi, url, in this order, whichever optional fields the entry has.
C7_WrapperShape ==
  prog = "bib2html" =>
    \A r \in 1..Len(docs) :
      LET w == SelectSeq(docs[r], IsWrapperOpen)
      IN  /\ Len(w) = 9 * Len(entries)
          /\ \A t \in 1..Len(w) : w[t].klass = Wrappers[((t - 1) % 9) + 1]

\* C8: parse_date uses issue_date, else date, else year and month, and
\* raises whenever that encoding does not give the expected tokens: an
\* issue_date that is not two whitespace-separated tokens, a date that is
\* three components neither on "-" nor on whitespace, an absent year; when it
\* returns, the year is the raw year token of that encoding.
C8_DateRaises ==
  (pc # "ready") =>
    IF Has(arg, "issue_date")
    THEN LET tokens == SplitWS(Val(arg, "issue_date"))
         IN  /\ Len(tokens) # 2 => ret.exc # ""
             /\ ret.exc = "" => ret.year = tokens[2]
    ELSE IF Has(arg, "date")
    THEN LET dash == SplitOn(Val(arg, "date"), "-")
             ws == SplitWS(Val(arg, "date"))
         IN  /\ (Len(dash) # 3 /\ Len(ws) # 3) => ret.exc # ""
             /\ ret.exc = "" => ret.year = (IF Len(dash) = 3 THEN dash[1] ELSE ws[1])
    ELSE /\ ~Has(arg, "year") => ret.exc # ""
         /\ ret.exc = "" => ret.year = Val(arg, "year")

\* C9: the list renderers write one list item per entry, in the order of the
\* library: while the loop runs the items written are those of the entries
\* before the current one, a rendered library holds one item for every
\* entry, and each item has the entry's key as id and the classes "paper"
\* and "journal" (article), "conference" (inproceedings) or the entry type.
C9_OneItemPerRecord ==
  /\ \A r \in 1..Len(docs) :
       /\ LiOpens(docs[r]) = ExpectedItems(Len(entries))
       /\ Len(SelectSeq(docs[r], IsLiClose)) = Len(entries)
  /\ pc \in {"loop", "raised"} =>
       /\ LiOpens(doc) = ExpectedItems(i - 1)
       /\ Len(SelectSeq(doc, IsLiClose)) = i - 1

C9_Witness ==
  /\ Len(docs) = 1
  /\ pc = "idle"
  /\ Len(entries) = 3
  /\ entries[1].entry_type = "patent"
  /\ entries[2].entry_type = "article"
  /\ entries[3].entry_type = "inproceedings"

\* C10: rendering is fail-fast.  When the rendering of an entry raises, html
\* logs the entry and raises to its caller (the loop does not go on); the
\* entries before it have their list items, in order, the failing entry and
\* those after it have none, and nothing more is written in that run.
C10_FailFast ==
  /\ [](pc = "raised" =>
          /\ log # <<>>
          /\ log[Len(log)] = entries[i].key
          /\ LiOpens(doc) = ExpectedItems(i - 1))
  /\ [][(pc = "loop" /\ i <= Len(entries) /\ EntryHtml(entries[i]).exc # "")
          => (pc' = "raised" /\ i' = i /\ log' = Append(log, entries[i].key))]_vars
  /\ [][pc = "raised" => (pc' = "raised" /\ doc' = doc)]_vars

C10_Witness ==
  /\ pc = "raised"
  /\ i = 2
  /\ Len(entries) = 3
  /\ Len(LiOpens(doc)) = 1
  /\ log = <<entries[2].key>>

====
